---- MODULE Spec2Model ----
(***************************************************************************)
(* ToDo-Wallpaper: the task-file parser, the AI-image cache, the render    *)
(* cycle (update_wallpaper / create_wallpaper / set_wallpaper) and the     *)
(* watch-and-regenerate loop (run / TodoFileHandler.on_modified) of        *)
(* src/todo_wallpaper_module.py.                                           *)
(*                                                                         *)
(* A Python str is a sequence of one-character strings.                    *)
(***************************************************************************)
EXTENDS Integers, Sequences, FiniteSets, TLC

VARIABLES
    p_file,     \* parser run: the content of todo.txt, a str
    p_tasks,    \* parser run: the list parse_todo_file returned
    p_pc        \* parser run: "ready" before the call, "done" after it

VARIABLES
    \* the files in the working directory
    todo_file,       \* todo.txt: its content, a str
    ai_image_file,   \* ai_todo_image.png: None, or Some(image)
    wallpaper_file,  \* todo_wallpaper.png: None, or Some(raster)
    \* the TodoWallpaperGenerator object
    use_ai_images,   \* self.use_ai_images
    openai_client,   \* self.openai_client is not None
    last_content,    \* self.last_content: None, or Some(str)
    last_ai_image,   \* self.last_ai_image: None, or Some(path)
    \* run() and the observer
    main_pc,         \* the main thread's position in run()
    obs_pc,          \* the observer thread: "off", "idle", "handling", "dead", "stopped"
    event_queue,     \* the observer's queue of file-system events
    last_modified,   \* TodoFileHandler.last_modified
    h_time,          \* on_modified's local current_time
    cyc,             \* per thread: the update_wallpaper call it is executing
    clock,           \* time.time(), in seconds
    \* history
    changes,         \* number of file-system changes made so far
    api_calls,       \* number of calls of openai_client.images.generate
    prev_ai,         \* None, or Some(record of the previous AI step)
    renders,         \* number of render cycles started
    honored,         \* arrival times of the last two events that started a render cycle
    follow,          \* per render cycle: cycles started by events that arrived during it
    mid_renders      \* ids of the render cycles during which a todo.txt event arrived

VARIABLES
    \* the editor's "Generate AI Wallpaper" thread (generate_in_thread)
    e_pc,            \* its position
    e_tasks,         \* tasks, as its generator parsed them
    e_last_ai_image, \* generator.last_ai_image of its temporary generator
    e_img            \* the image its create_wallpaper pasted

VARIABLES
    \* a run of the word wrap and text drawing of create_task_module
    w_text,          \* task['text']
    w_text_width,    \* text_width
    w_lines,         \* lines, as the wrap loop leaves it
    w_drawn,         \* the strings passed to draw.text, in order
    w_pc,            \* "ready" before the run, "done" after it
    \* a run of the progress bar of create_task_module
    b_completed_count,  \* completed_count
    b_total_count,      \* total_count
    b_progress_width,   \* progress_width
    b_fill,             \* None, or Some(width of the filled rectangle)
    b_pc,               \* "ready" before the run, "done" after it
    \* a run of the task-module loop of create_wallpaper
    l_design,        \* the design metrics the loop reads
    l_tasks,         \* tasks
    l_drawn,         \* the tasks create_task_module was called for, in order
    l_more,          \* None, or Some(k) for the line "+k more tasks"
    l_pc             \* "ready" before the run, "done" after it

VARIABLES
    \* the desktop's wallpaper mechanism and what set_wallpaper printed
    sink,            \* how the platform call of set_wallpaper ends in this run
    sink_log,        \* what the last set_wallpaper call printed
    \* a run of parse_todo_file against a file that may fail to be read
    r_exists,        \* self.todo_file.exists()
    r_lines,         \* the lines of todo.txt
    r_error,         \* None, or Some(k): the read raises after k lines
    r_tasks,         \* the list parse_todo_file returned
    r_reported,      \* "Error reading todo file" was printed
    r_pc,            \* "ready" before the call, "done" after it
    \* a run of TodoApp._deep_merge
    m_base,          \* base, as passed
    m_update,        \* update
    m_merged,        \* what the call returned
    m_again,         \* what merging update into that once more returned
    m_pc,            \* "ready", "merged", "again"
    \* a run of setup_design_system
    ds_config,       \* resolution and design_system of the configuration
    ds_resolved,     \* None, or Some(the metrics computed)
    ds_pc,           \* "ready" before the call, "done" after it
    \* a run of the editor's save_todos, read back by both line parsers
    rt_items,        \* self.todo_widgets: per widget the entry text and the checkbox
    rt_file,         \* todo.txt as save_todos wrote it, a str
    rt_tasks,        \* what parse_todo_file made of that file
    rt_widgets,      \* what load_todos and create_todo_widget made of it
    rt_pc,           \* "ready", "saved", "read"
    \* the editor and its wallpaper updater subprocess
    enable_wallpaper,   \* app_config.get('enable_wallpaper', True)
    wallpaper_process,  \* self.wallpaper_process: None, or Some(pid)
    alive,              \* the pids of the updaters this editor started that are alive
    spawned,            \* number of updaters started so far
    last_call,          \* None, or Some(record of the last manage_wallpaper call)
    ed_running          \* self.running

pvars == <<p_file, p_tasks, p_pc>>
evars == <<e_pc, e_tasks, e_last_ai_image, e_img>>
wvars == <<w_text, w_text_width, w_lines, w_drawn, w_pc>>
bvars == <<b_completed_count, b_total_count, b_progress_width, b_fill, b_pc>>
lvars == <<l_design, l_tasks, l_drawn, l_more, l_pc>>
dvars == <<wvars, bvars, lvars>>
svars == <<sink, sink_log>>
rvars == <<r_exists, r_lines, r_error, r_tasks, r_reported, r_pc>>
mvars == <<m_base, m_update, m_merged, m_again, m_pc>>
dsvars == <<ds_config, ds_resolved, ds_pc>>
rtvars == <<rt_items, rt_file, rt_tasks, rt_widgets, rt_pc>>
uvars == <<enable_wallpaper, wallpaper_process, alive, spawned, last_call, ed_running>>
avars == <<rvars, mvars, dsvars, rtvars, uvars>>
xvars == <<svars, avars>>
fvars == <<todo_file, ai_image_file, wallpaper_file>>
gvars == <<use_ai_images, openai_client, last_content, last_ai_image>>
tvars == <<main_pc, obs_pc, event_queue, last_modified, h_time, cyc, clock>>
hvars == <<changes, api_calls, prev_ai, renders, honored, follow, mid_renders>>
vars == <<pvars, fvars, gvars, tvars, hvars, evars, dvars, xvars>>

----------------------------------------------------------------------------
(* Bounds *)

\* longest todo.txt content (in characters, newlines included) of a parser run
MaxFileLen == 6

\* number of file-system changes the environment makes during one run()
MaxChanges == 2

\* the clock stops advancing at this value
MaxTime == 4

\* longest task text of a word-wrap run, in characters
MaxTextLen == 6

\* widest text_width of a word-wrap run, in widths of a narrow glyph
MaxTextWidth == 4

\* largest total_count of a progress-bar run
MaxCount == 4

\* largest progress_width of a progress-bar run, in pixels
MaxBarWidth == 5

\* longest task list of a module-loop run
MaxTasks == 7

\* largest max_visible_tasks of a module-loop run
MaxVisibleTasks == 5

\* `current_time - self.last_modified > 1`, seconds
DebounceWindow == 1

----------------------------------------------------------------------------
(* Python str helpers *)

\* the characters a todo.txt is made of here: the marker characters, a
\* letter, the blank and the newline
Chars == {"[", "]", "x", "a", " ", "\n"}

\* str.strip() removes these from both ends
Whitespace == {" ", "\n"}

RECURSIVE lstrip(_)
lstrip(s) ==
    IF s = <<>> THEN <<>>
    ELSE IF Head(s) \in Whitespace THEN lstrip(Tail(s))
    ELSE s

RECURSIVE rstrip(_)
rstrip(s) ==
    IF s = <<>> THEN <<>>
    ELSE IF s[Len(s)] \in Whitespace THEN rstrip(SubSeq(s, 1, Len(s) - 1))
    ELSE s

\* s.strip()
strip(s) == rstrip(lstrip(s))

\* s.startswith(p)
startswith(s, p) == Len(s) >= Len(p) /\ SubSeq(s, 1, Len(p)) = p

\* s[n:]
SliceFrom(s, n) == SubSeq(s, n + 1, Len(s))

\* `for line in f`: the lines of the content, each with its newline, the
\* last one without when the content does not end in a newline
RECURSIVE FileLinesFrom(_, _)
FileLinesFrom(s, cur) ==
    IF s = <<>> THEN (IF cur = <<>> THEN <<>> ELSE <<cur>>)
    ELSE IF Head(s) = "\n" THEN <<Append(cur, "\n")>> \o FileLinesFrom(Tail(s), <<>>)
    ELSE FileLinesFrom(Tail(s), Append(cur, Head(s)))

FileLines(content) == FileLinesFrom(content, <<>>)

----------------------------------------------------------------------------
(* TodoWallpaperGenerator.parse_todo_file *)

Task(text, completed) == [text |-> text, completed |-> completed]

\* ParseLine with the slice after the '[x]' marker one character short
ParseLine_shortslice(tasks, rawline) ==
    LET line == strip(rawline) IN
    IF line = <<>> THEN tasks
    ELSE IF startswith(line, <<"[", "x", "]">>)
        THEN Append(tasks, Task(strip(SliceFrom(line, 2)), TRUE))
    ELSE IF startswith(line, <<"[", " ", "]">>)
        THEN Append(tasks, Task(strip(SliceFrom(line, 3)), FALSE))
    ELSE IF startswith(line, <<"x", " ">>)
        THEN Append(tasks, Task(strip(SliceFrom(line, 2)), TRUE))
    ELSE Append(tasks, Task(line, FALSE))

\* the body of the `for line in f` loop, lines 218-229
ParseLine(tasks, rawline) ==
    LET line == strip(rawline) IN
    IF line = <<>> THEN tasks
    ELSE IF startswith(line, <<"[", "x", "]">>)
        THEN Append(tasks, Task(strip(SliceFrom(line, 3)), TRUE))
    ELSE IF startswith(line, <<"[", " ", "]">>)
        THEN Append(tasks, Task(strip(SliceFrom(line, 3)), FALSE))
    ELSE IF startswith(line, <<"x", " ">>)
        THEN Append(tasks, Task(strip(SliceFrom(line, 2)), TRUE))
    ELSE Append(tasks, Task(line, FALSE))

RECURSIVE ParseLines(_, _)
ParseLines(tasks, lines) ==
    IF lines = <<>> THEN tasks
    ELSE ParseLines(ParseLine(tasks, Head(lines)), Tail(lines))

\* parse_todo_file on an existing, readable file of the given content
parse_todo_file(content) == ParseLines(<<>>, FileLines(content))

----------------------------------------------------------------------------
(* Values *)

None == <<>>
Some(x) == <<x>>

Threads == {"main", "obs"}

\* the contents todo.txt takes during a run(): empty, one pending task,
\* the same task completed
WatchedFiles == {<<>>, <<"a">>, <<"[", "x", "]", "a">>}

\* str(self.ai_image_file)
AiImagePath == "ai_todo_image.png"

\* an image in ai_todo_image.png: the task list it was generated from and
\* whether this process or an earlier one generated it
Image(tasks, run) == [from |-> tasks, run |-> run]

\* a raster in todo_wallpaper.png: the task list drawn, the AI image pasted
\* (None: plain background), and whether the file was written completely
Raster(tasks, img, state, run) ==
    [tasks |-> tasks, img |-> img, state |-> state, run |-> run]

\* files left in the directory by an earlier process
OldImage == Image(<<>>, "earlier")
OldWallpaper == Raster(<<>>, None, "complete", "earlier")

\* the update_wallpaper call of a thread: pc "none" when the thread is not
\* inside one; id numbers the render cycles, gen is the outcome of the AI
\* step, img_before is last_ai_image when the cycle began, img the image
\* pasted
NoCycle ==
    [pc |-> "none", id |-> 0, tasks |-> <<>>, gen |-> "none", img_before |-> None,
     img |-> None]

\* the call was left by an exception
Aborted == [NoCycle EXCEPT !.pc = "failed"]

InFlight(th) == cyc[th].pc \in {"ai", "composite", "save", "apply"}

\* the id of the render cycle in progress, 0 when there is none
CurrentRender ==
    IF \E th \in Threads : InFlight(th)
    THEN cyc[CHOOSE th \in Threads : InFlight(th)].id
    ELSE 0

----------------------------------------------------------------------------
(* str(tasks), the fingerprint: Python's repr of a list of dicts, as a     *)
(* sequence of tokens; the task texts here hold no quote, backslash or     *)
(* control character, so repr writes them between single quotes unescaped  *)

repr_str(text) == <<"'">> \o text \o <<"'">>

\* repr_task without the completion flag
repr_task_textonly(t) ==
    <<"{", "'text'", ": ">> \o repr_str(t.text) \o <<"}">>

repr_task(t) ==
    <<"{", "'text'", ": ">> \o repr_str(t.text)
        \o <<", ", "'completed'", ": ", IF t.completed THEN "True" ELSE "False", "}">>

RECURSIVE repr_items(_)
repr_items(tasks) ==
    IF tasks = <<>> THEN <<>>
    ELSE IF Len(tasks) = 1 THEN repr_task(tasks[1])
    ELSE repr_task(tasks[1]) \o <<", ">> \o repr_items(Tail(tasks))

str_tasks(tasks) == <<"[">> \o repr_items(tasks) \o <<"]">>

----------------------------------------------------------------------------
(* How a thread leaves update_wallpaper *)

\* update_wallpaper returns to its caller: run() goes on to start the
\* observer (lines 612-617), on_modified stores current_time (line 640)
\* and the observer thread takes the next event, or ends when
\* observer.stop() was called meanwhile, which lets observer.join() return
Returns(th) ==
    IF th = "main"
    THEN /\ main_pc' = "start_observer"
         /\ UNCHANGED <<obs_pc, last_modified, h_time>>
    ELSE /\ last_modified' = h_time
         /\ h_time' = 0
         /\ IF main_pc = "joining"
            THEN main_pc' = "returned" /\ obs_pc' = "stopped"
            ELSE obs_pc' = "idle" /\ UNCHANGED main_pc

\* an exception leaves update_wallpaper: nothing in update_wallpaper, run()
\* or on_modified catches it, so it ends run() on the main thread and the
\* dispatching thread of the observer otherwise (the main thread sleeps on,
\* or returns from observer.join())
Raises(th) ==
    IF th = "main"
    THEN /\ main_pc' = "crashed"
         /\ UNCHANGED <<obs_pc, last_modified, h_time>>
    ELSE /\ obs_pc' = "dead"
         /\ h_time' = 0
         /\ main_pc' = IF main_pc = "joining" THEN "returned" ELSE main_pc
         /\ UNCHANGED last_modified

\* run() has neither returned nor been left by an exception
ProcessAlive == main_pc \in {"update", "start_observer", "sleeping", "joining"}

\* run() has not been asked to stop. What the environment does after that
\* reaches no handler and is left out.
Running == main_pc \in {"update", "start_observer", "sleeping"}

\* the observer delivers events between observer.start() and observer.stop()
Watching == obs_pc # "off" /\ Running

----------------------------------------------------------------------------
(* TodoWallpaperGenerator.update_wallpaper and create_wallpaper *)

\* MustRender without any test: every call renders
MustRender_always(content) == TRUE

\* MustRender with the test for the output file alone
MustRender_missingonly(content) == wallpaper_file = None

\* MustRender without the use_ai_images disjunct of line 589
MustRender_contentonly(content) ==
    Some(content) # last_content \/ wallpaper_file = None

\* line 589
MustRender(content) ==
    use_ai_images \/ Some(content) # last_content \/ wallpaper_file = None

\* lines 586-591: thread th parses todo.txt and enters create_wallpaper
BeginUpdate(th) ==
    LET tasks == parse_todo_file(todo_file) IN
    /\ MustRender(str_tasks(tasks))
    /\ cyc' = [cyc EXCEPT ![th] =
                 [pc |-> IF use_ai_images THEN "ai" ELSE "composite",
                  id |-> renders + 1, tasks |-> tasks, gen |-> "none",
                  img_before |-> last_ai_image, img |-> None]]
    /\ renders' = renders + 1

\* lines 586-589, 596: nothing to do, update_wallpaper returns False
SkipUpdate(th) ==
    /\ ~MustRender(str_tasks(parse_todo_file(todo_file)))
    /\ cyc' = [cyc EXCEPT ![th] = NoCycle]
    /\ UNCHANGED renders

\* NeedsRegeneration without the test for the cache file
NeedsRegeneration_nofilecheck(content) == Some(content) # last_content

\* line 403
NeedsRegeneration(content) ==
    Some(content) # last_content \/ ai_image_file = None

\* line 236: generate_ai_image goes on to call the API
CallsApi(tasks) == openai_client /\ tasks # <<>>

\* NewLastAiImage without the guard of line 405
NewLastAiImage_unguarded(ai_path) == ai_path

\* lines 405-406
NewLastAiImage(ai_path) == IF ai_path # None THEN ai_path ELSE last_ai_image

\* NewLastContent under the guard of line 405: stored for a generated
\* image only
NewLastContent_onsuccess(content, ai_path) ==
    IF ai_path # None THEN Some(content) ELSE last_content

\* line 407
NewLastContent(content, ai_path) == Some(content)

\* lines 401-407 with generate_ai_image (234-268): the AI step of
\* create_wallpaper. ai_path is what generate_ai_image returns.
AiStep(th) ==
    /\ cyc[th].pc = "ai"
    /\ LET tasks == cyc[th].tasks
           content == str_tasks(tasks)
           Done(gen, ai_path, called) ==
               /\ cyc' = [cyc EXCEPT ![th].pc = "composite", ![th].gen = gen]
               /\ last_ai_image' = NewLastAiImage(ai_path)
               /\ last_content' = NewLastContent(content, ai_path)
               /\ api_calls' = api_calls + (IF called THEN 1 ELSE 0)
               /\ prev_ai' = Some([tasks |-> tasks, called |-> called,
                                   fresh |-> Some(content) # last_content])
       IN
       IF NeedsRegeneration(content)
       THEN IF CallsApi(tasks)
            THEN \/ /\ ai_image_file' = Some(Image(tasks, "this"))
                    /\ Done("ok", Some(AiImagePath), TRUE)
                 \/ /\ UNCHANGED ai_image_file
                    /\ Done("failed", None, TRUE)
            ELSE /\ UNCHANGED ai_image_file
                 /\ Done("nocall", None, FALSE)
       ELSE /\ cyc' = [cyc EXCEPT ![th].pc = "composite", ![th].gen = "cached"]
            /\ prev_ai' = Some([tasks |-> tasks, called |-> FALSE, fresh |-> FALSE])
            /\ UNCHANGED <<ai_image_file, last_ai_image, last_content, api_calls>>
    /\ UNCHANGED <<pvars, evars, dvars, xvars, todo_file, wallpaper_file, use_ai_images, openai_client>>
    /\ UNCHANGED <<main_pc, obs_pc, event_queue, last_modified, h_time, clock>>
    /\ UNCHANGED <<changes, renders, honored, follow, mid_renders>>

\* line 409: the image create_wallpaper pastes
PastedImage ==
    IF last_ai_image # None /\ ai_image_file # None THEN ai_image_file ELSE None

\* lines 377-556: drawing; an exception raised here leaves update_wallpaper
Composite(th) ==
    /\ cyc[th].pc = "composite"
    /\ \/ /\ cyc' = [cyc EXCEPT ![th].pc = "save", ![th].img = PastedImage]
          /\ UNCHANGED <<main_pc, obs_pc, last_modified, h_time>>
       \/ /\ cyc' = [cyc EXCEPT ![th] = Aborted]
          /\ Raises(th)
    /\ UNCHANGED <<pvars, evars, dvars, xvars, fvars, gvars, event_queue, clock, hvars>>

\* line 559, img.save(self.wallpaper_file): the file is opened for writing
\* at its final path; a failure leaves it as it was when the open failed,
\* and cut short when the write failed
Save(th) ==
    /\ cyc[th].pc = "save"
    /\ \/ /\ wallpaper_file' = Some(Raster(cyc[th].tasks, cyc[th].img, "complete", "this"))
          /\ cyc' = [cyc EXCEPT ![th].pc = "apply"]
          /\ UNCHANGED <<main_pc, obs_pc, last_modified, h_time>>
       \/ /\ \/ UNCHANGED wallpaper_file
             \/ wallpaper_file' = Some(Raster(cyc[th].tasks, cyc[th].img, "partial", "this"))
          /\ cyc' = [cyc EXCEPT ![th] = Aborted]
          /\ Raises(th)
    /\ UNCHANGED <<pvars, evars, dvars, xvars, todo_file, ai_image_file, gvars, event_queue, clock, hvars>>

\* How the platform call of set_wallpaper (lines 567-580) can end:
\* "applied": the call returns and the desktop shows the file;
\* "raises": it raises, as subprocess.run does for a command that is not
\*   installed;
\* "exit_status": the command runs and exits with a failure status, or
\*   SystemParametersInfoW returns 0: subprocess.run is called without
\*   check=True and the return value is dropped;
\* "unsupported": platform.system() is none of the three names, no branch
\*   is taken
Sinks == {"applied", "raises", "exit_status", "unsupported"}

\* lines 581-582: the except clause prints the error and the path to set
\* by hand; nothing else in set_wallpaper prints
Printed == IF sink = "raises" THEN "error_and_path" ELSE "nothing"

\* lines 592-595: set_wallpaper (561-582: it catches its own errors, so
\* the call returns whether or not the sink took the file), then
\* last_content when AI images are off, and update_wallpaper returns
SetWallpaper(th) ==
    /\ cyc[th].pc = "apply"
    /\ cyc' = [cyc EXCEPT ![th] = NoCycle]
    /\ last_content' = IF ~use_ai_images THEN Some(str_tasks(cyc[th].tasks))
                       ELSE last_content
    /\ sink_log' = Printed
    /\ Returns(th)
    /\ UNCHANGED <<pvars, evars, dvars, avars, sink, todo_file, ai_image_file, wallpaper_file>>
    /\ UNCHANGED <<use_ai_images, openai_client, last_ai_image>>
    /\ UNCHANGED <<event_queue, clock, hvars>>

----------------------------------------------------------------------------
(* TodoWallpaperGenerator.run and TodoFileHandler.on_modified *)

\* line 612: the initial update_wallpaper call
RunInitialUpdate ==
    /\ main_pc = "update"
    /\ cyc["main"].pc = "none"
    /\ \/ BeginUpdate("main") /\ UNCHANGED main_pc
       \/ SkipUpdate("main") /\ main_pc' = "start_observer"
    /\ UNCHANGED <<pvars, evars, dvars, xvars, fvars, gvars, obs_pc, event_queue, last_modified, h_time, clock>>
    /\ UNCHANGED <<changes, api_calls, prev_ai, honored, follow, mid_renders>>

\* RunStartObserver with observer.start() ahead of the initial
\* update_wallpaper call
RunStartObserver_early ==
    /\ main_pc = "update"
    /\ obs_pc = "off"
    /\ obs_pc' = "idle"
    /\ UNCHANGED <<pvars, evars, dvars, xvars, fvars, gvars, main_pc, event_queue, last_modified, h_time, cyc, clock, hvars>>

\* lines 614-621: the observer starts, the main thread sleeps
RunStartObserver ==
    /\ main_pc = "start_observer"
    /\ obs_pc = "off"
    /\ main_pc' = "sleeping"
    /\ obs_pc' = "idle"
    /\ UNCHANGED <<pvars, evars, dvars, xvars, fvars, gvars, event_queue, last_modified, h_time, cyc, clock, hvars>>

\* line 638
OutsideWindow(current_time) == current_time - last_modified > DebounceWindow

\* the observer thread takes the next event and calls on_modified (635-640)
\* with it, up to the point where update_wallpaper enters create_wallpaper
ObsDispatch ==
    /\ obs_pc = "idle"
    /\ Running
    /\ event_queue # <<>>
    /\ event_queue' = Tail(event_queue)
    /\ LET ev == Head(event_queue) IN
       IF OutsideWindow(clock)
       THEN \/ /\ BeginUpdate("obs")
               /\ obs_pc' = "handling"
               /\ h_time' = clock
               /\ honored' = IF Len(honored) = 2 THEN <<honored[2], ev.at>>
                             ELSE Append(honored, ev.at)
               /\ follow' = IF ev.during = 0 THEN follow
                             ELSE [follow EXCEPT ![ev.during] = @ + 1]
               /\ UNCHANGED last_modified
            \/ /\ SkipUpdate("obs")
               /\ last_modified' = clock
               /\ UNCHANGED <<obs_pc, h_time, honored, follow>>
       ELSE UNCHANGED <<obs_pc, h_time, last_modified, cyc, renders, honored, follow>>
    /\ UNCHANGED <<pvars, evars, dvars, xvars, fvars, gvars, main_pc, clock>>
    /\ UNCHANGED <<changes, api_calls, prev_ai, mid_renders>>

\* observer.stop() and observer.join() (lines 623, 626) with the observer
\* thread out of the handler: the thread ends and run() returns
StopAndJoin ==
    /\ main_pc' = "returned"
    /\ obs_pc' = IF obs_pc = "dead" THEN "dead" ELSE "stopped"

\* lines 622-626: Ctrl+C. Inside the sleep loop it is caught, the observer
\* is told to stop and joined, which waits for a handler in progress;
\* before that (lines 612-617 are outside the try) it ends run() where it
\* stands, a write in progress included
Interrupt ==
    /\ \/ /\ main_pc = "sleeping"
          /\ IF obs_pc = "handling"
             THEN main_pc' = "joining" /\ UNCHANGED obs_pc
             ELSE StopAndJoin
          /\ UNCHANGED <<cyc, wallpaper_file>>
       \/ /\ main_pc \in {"update", "start_observer"}
          /\ main_pc' = "interrupted"
          /\ cyc' = [cyc EXCEPT !["main"] =
                        IF InFlight("main") THEN Aborted ELSE cyc["main"]]
          /\ \/ UNCHANGED wallpaper_file
             \/ /\ cyc["main"].pc = "save"
                /\ wallpaper_file' = Some(Raster(cyc["main"].tasks, cyc["main"].img,
                                                 "partial", "this"))
          /\ UNCHANGED obs_pc
    /\ UNCHANGED <<pvars, evars, dvars, xvars, todo_file, ai_image_file, gvars>>
    /\ UNCHANGED <<event_queue, last_modified, h_time, clock, hvars>>

----------------------------------------------------------------------------
(* The environment *)

\* a modification event of todo.txt: its arrival time and the render cycle
\* in progress when it arrived. Events of other paths are dropped by line
\* 636 without any effect and are left out of the queue.
Event == [at |-> clock, during |-> CurrentRender]

\* the observer queues the event of a change of todo.txt
Notify ==
    IF Watching
    THEN /\ event_queue' = Append(event_queue, Event)
         /\ mid_renders' = IF CurrentRender # 0
                           THEN mid_renders \cup {CurrentRender}
                           ELSE mid_renders
    ELSE UNCHANGED <<event_queue, mid_renders>>

\* the editor (or the user) writes todo.txt
FileChange ==
    /\ Running
    /\ changes < MaxChanges
    /\ changes' = changes + 1
    /\ \E content \in WatchedFiles : todo_file' = content
    /\ Notify
    /\ UNCHANGED <<pvars, evars, dvars, xvars, ai_image_file, wallpaper_file, gvars>>
    /\ UNCHANGED <<main_pc, obs_pc, last_modified, h_time, cyc, clock>>
    /\ UNCHANGED <<api_calls, prev_ai, renders, honored, follow>>

\* ai_todo_image.png is removed
DeleteCache ==
    /\ Running
    /\ changes < MaxChanges
    /\ ai_image_file # None
    /\ changes' = changes + 1
    /\ ai_image_file' = None
    /\ UNCHANGED <<pvars, evars, dvars, xvars, todo_file, wallpaper_file, gvars>>
    /\ UNCHANGED <<main_pc, obs_pc, event_queue, last_modified, h_time, cyc, clock>>
    /\ UNCHANGED <<api_calls, prev_ai, renders, honored, follow, mid_renders>>

\* time passes. The clock is read by on_modified alone, and only compared
\* with last_modified (line 638): it is advanced from observer.start() on,
\* while a handler runs or the debounce window is open. Waiting longer than
\* that changes no comparison. An idle observer thread takes a queued event
\* at once.
Tick ==
    /\ Watching
    /\ obs_pc = "handling" \/ (~OutsideWindow(clock) /\ event_queue = <<>>)
    /\ clock < MaxTime
    /\ clock' = clock + 1
    /\ UNCHANGED <<pvars, evars, dvars, xvars, fvars, gvars, main_pc, obs_pc, event_queue, last_modified, h_time, cyc, hvars>>

----------------------------------------------------------------------------
(* run() from construction (lines 39-74) on *)

ParserIdle == p_file = <<>> /\ p_tasks = <<>> /\ p_pc = "ready"

\* the editor's button has not been pressed
EditorIdle ==
    /\ e_pc = "idle"
    /\ e_tasks = <<>>
    /\ e_last_ai_image = None
    /\ e_img = None

\* no drawing run in progress
WrapIdle ==
    /\ w_text = <<>>
    /\ w_text_width = 0
    /\ w_lines = <<>>
    /\ w_drawn = <<>>
    /\ w_pc = "ready"

BarIdle ==
    /\ b_completed_count = 0
    /\ b_total_count = 0
    /\ b_progress_width = 0
    /\ b_fill = None
    /\ b_pc = "ready"

LayoutIdle ==
    /\ l_design = <<>>
    /\ l_tasks = <<>>
    /\ l_drawn = <<>>
    /\ l_more = None
    /\ l_pc = "ready"

DrawIdle == WrapIdle /\ BarIdle /\ LayoutIdle

\* the wallpaper mechanism works, set_wallpaper not yet called
SinkIdle == sink = "applied" /\ sink_log = "not_called"

ReadIdle ==
    /\ r_exists = FALSE
    /\ r_lines = <<>>
    /\ r_error = None
    /\ r_tasks = <<>>
    /\ r_reported = FALSE
    /\ r_pc = "ready"

MergeIdle ==
    /\ m_base = <<>>
    /\ m_update = <<>>
    /\ m_merged = <<>>
    /\ m_again = <<>>
    /\ m_pc = "ready"

DesignIdle ==
    /\ ds_config = <<>>
    /\ ds_resolved = None
    /\ ds_pc = "ready"

FormatIdle ==
    /\ rt_items = <<>>
    /\ rt_file = <<>>
    /\ rt_tasks = <<>>
    /\ rt_widgets = <<>>
    /\ rt_pc = "ready"

\* the editor as constructed (line 34), no updater started
UpdaterIdle ==
    /\ enable_wallpaper = TRUE
    /\ wallpaper_process = None
    /\ alive = {}
    /\ spawned = 0
    /\ last_call = None
    /\ ed_running = TRUE

\* none of the runs of the single operations below has begun
AuxIdle == ReadIdle /\ MergeIdle /\ DesignIdle /\ FormatIdle /\ UpdaterIdle

\* the generator as run() finds it, whatever the wallpaper mechanism
LoopInit ==
    /\ ParserIdle
    /\ EditorIdle
    /\ DrawIdle
    /\ AuxIdle
    /\ todo_file \in WatchedFiles
    /\ ai_image_file \in {None, Some(OldImage)}
    /\ wallpaper_file \in {None, Some(OldWallpaper)}
    /\ use_ai_images \in BOOLEAN
    /\ openai_client \in BOOLEAN
    /\ openai_client => use_ai_images
    /\ ai_image_file # None => use_ai_images
    /\ last_content = None
    /\ last_ai_image = None
    /\ main_pc = "update"
    /\ obs_pc = "off"
    /\ event_queue = <<>>
    /\ last_modified = 0
    /\ h_time = 0
    /\ cyc = [th \in Threads |-> NoCycle]
    /\ clock = DebounceWindow + 1
    /\ changes = 0
    /\ api_calls = 0
    /\ prev_ai = None
    /\ renders = 0
    /\ honored = <<>>
    /\ follow = [r \in 1..MaxChanges + 1 |-> 0]
    /\ mid_renders = {}

Init == LoopInit /\ SinkIdle

Next ==
    \/ RunInitialUpdate
    \/ RunStartObserver
    \/ ObsDispatch
    \/ \E th \in Threads : AiStep(th)
    \/ \E th \in Threads : Composite(th)
    \/ \E th \in Threads : Save(th)
    \/ \E th \in Threads : SetWallpaper(th)
    \/ Interrupt
    \/ FileChange
    \/ DeleteCache
    \/ Tick

Spec == Init /\ [][Next]_vars

----------------------------------------------------------------------------
(* The editor's "Generate AI Wallpaper" action, src/todo_editor_module.py   *)
(* lines 127-208, next to the regeneration loop it started as a            *)
(* subprocess (manage_wallpaper, lines 85-101). Both work in the same       *)
(* directory on ai_todo_image.png and todo_wallpaper.png; the thread has a  *)
(* temporary TodoWallpaperGenerator of its own, with use_ai_images set.     *)

\* everything of the loop but the two files the editor's thread writes
loopvars == <<pvars, dvars, avars, sink, todo_file, gvars, tvars, hvars>>

\* lines 136-166: the button is pressed; no API key, or no tasks, ends the
\* thread with a message box
EditorPress ==
    /\ e_pc = "idle"
    /\ \E has_key \in BOOLEAN :
          LET tasks == parse_todo_file(todo_file) IN
          IF has_key /\ tasks # <<>>
          THEN e_tasks' = tasks /\ e_pc' = "generate"
          ELSE e_tasks' = e_tasks /\ e_pc' = "done"
    /\ UNCHANGED <<loopvars, sink_log, ai_image_file, wallpaper_file, e_last_ai_image, e_img>>

\* lines 169-173, 182: generator.generate_ai_image(tasks) and, for a path,
\* generator.last_ai_image = ai_image_path
EditorGenerate ==
    /\ e_pc = "generate"
    /\ \/ /\ ai_image_file' = Some(Image(e_tasks, "editor"))
          /\ e_last_ai_image' = Some(AiImagePath)
          /\ e_pc' = "ai"
       \/ /\ e_pc' = "done"
          /\ UNCHANGED <<ai_image_file, e_last_ai_image>>
    /\ UNCHANGED <<loopvars, sink_log, wallpaper_file, e_tasks, e_img>>

\* line 174, generator.create_wallpaper(tasks), lines 400-407 of the
\* generator: last_content of the temporary generator is None, so the AI
\* step calls generate_ai_image once more
EditorAiStep ==
    /\ e_pc = "ai"
    /\ \/ ai_image_file' = Some(Image(e_tasks, "editor"))
       \/ UNCHANGED ai_image_file
    /\ e_pc' = "composite"
    /\ UNCHANGED <<loopvars, sink_log, wallpaper_file, e_tasks, e_last_ai_image, e_img>>

\* line 174, lines 409-557 of the generator; an exception ends the thread
\* at line 189
EditorComposite ==
    /\ e_pc = "composite"
    /\ \/ /\ e_img' = IF e_last_ai_image # None /\ ai_image_file # None
                      THEN ai_image_file ELSE None
          /\ e_pc' = "save"
       \/ /\ e_pc' = "done"
          /\ UNCHANGED e_img
    /\ UNCHANGED <<loopvars, sink_log, ai_image_file, wallpaper_file, e_tasks, e_last_ai_image>>

\* line 174, line 559 of the generator
EditorSave ==
    /\ e_pc = "save"
    /\ \/ /\ wallpaper_file' = Some(Raster(e_tasks, e_img, "complete", "editor"))
          /\ e_pc' = "apply"
       \/ /\ \/ UNCHANGED wallpaper_file
             \/ wallpaper_file' = Some(Raster(e_tasks, e_img, "partial", "editor"))
          /\ e_pc' = "done"
    /\ UNCHANGED <<loopvars, sink_log, ai_image_file, e_tasks, e_last_ai_image, e_img>>

\* lines 175-181: generator.set_wallpaper() and the success message
EditorSetWallpaper ==
    /\ e_pc = "apply"
    /\ e_pc' = "done"
    /\ sink_log' = Printed
    /\ UNCHANGED <<loopvars, ai_image_file, wallpaper_file, e_tasks, e_last_ai_image, e_img>>

\* the loop, left running within one debounce window, and the editor's thread
EditorNext ==
    \/ RunInitialUpdate
    \/ RunStartObserver
    \/ ObsDispatch
    \/ \E th \in Threads : AiStep(th)
    \/ \E th \in Threads : Composite(th)
    \/ \E th \in Threads : Save(th)
    \/ \E th \in Threads : SetWallpaper(th)
    \/ FileChange
    \/ EditorPress
    \/ EditorGenerate
    \/ EditorAiStep
    \/ EditorComposite
    \/ EditorSave
    \/ EditorSetWallpaper

SpecEditor == Init /\ [][EditorNext]_vars

----------------------------------------------------------------------------
(* Parser runs: every content up to MaxFileLen characters, parsed once *)

Strings(n) == UNION {[1..k -> Chars] : k \in 0..n}

\* the generator as constructed, nothing running
PipelineIdle ==
    /\ SinkIdle
    /\ todo_file = <<>>
    /\ ai_image_file = None
    /\ wallpaper_file = None
    /\ use_ai_images = FALSE
    /\ openai_client = FALSE
    /\ last_content = None
    /\ last_ai_image = None
    /\ main_pc = "update"
    /\ obs_pc = "off"
    /\ event_queue = <<>>
    /\ last_modified = 0
    /\ h_time = 0
    /\ cyc = [th \in Threads |-> NoCycle]
    /\ clock = DebounceWindow + 1
    /\ changes = 0
    /\ api_calls = 0
    /\ prev_ai = None
    /\ renders = 0
    /\ honored = <<>>
    /\ follow = [r \in 1..MaxChanges + 1 |-> 0]
    /\ mid_renders = {}

ParseInit ==
    /\ p_file \in Strings(MaxFileLen)
    /\ p_tasks = <<>>
    /\ p_pc = "ready"
    /\ PipelineIdle
    /\ EditorIdle
    /\ AuxIdle
    /\ DrawIdle

ParseCall ==
    /\ p_pc = "ready"
    /\ p_tasks' = parse_todo_file(p_file)
    /\ p_pc' = "done"
    /\ UNCHANGED <<p_file, fvars, gvars, tvars, hvars, evars, dvars, xvars>>

ParseNext == ParseCall

SpecParse == ParseInit /\ [][ParseNext]_vars

----------------------------------------------------------------------------
(* create_task_module, lines 326-351: word wrap and text drawing *)

\* the characters of a task text here: a narrow letter, a wide letter and
\* the blank
TextChars == {"a", "W", " "}

\* draw.textbbox((0, 0), line, font), bbox[2] - bbox[0] (lines 333-334):
\* the glyph widths of the line added up, the wide letter twice the narrow
RECURSIVE TextWidth(_)
TextWidth(line) ==
    IF line = <<>> THEN 0
    ELSE (IF Head(line) = "W" THEN 2 ELSE 1) + TextWidth(Tail(line))

\* text.split(): the maximal runs of non-whitespace characters
RECURSIVE SplitFrom(_, _)
SplitFrom(s, word) ==
    IF s = <<>> THEN (IF word = <<>> THEN <<>> ELSE <<word>>)
    ELSE IF Head(s) \in Whitespace
         THEN (IF word = <<>> THEN <<>> ELSE <<word>>) \o SplitFrom(Tail(s), <<>>)
         ELSE SplitFrom(Tail(s), Append(word, Head(s)))

split(text) == SplitFrom(text, <<>>)

\* ' '.join(words)
RECURSIVE join(_)
join(words) ==
    IF words = <<>> THEN <<>>
    ELSE IF Len(words) = 1 THEN words[1]
    ELSE words[1] \o <<" ">> \o join(Tail(words))

\* Fits with < for <=
Fits_strict(test_line, text_width) == TextWidth(test_line) < text_width

\* line 334
Fits(test_line, text_width) == TextWidth(test_line) <= text_width

\* StartLine losing the word
StartLine_dropped(word) == <<>>

\* line 339: current_line = [word]
StartLine(word) == <<word>>

\* lines 341-342 and 337-338: lines.append(' '.join(current_line)) for a
\* non-empty current_line
Flush(lines, current_line) ==
    IF current_line # <<>> THEN Append(lines, join(current_line)) ELSE lines

\* lines 332-339: the body of the wrap loop for one word
WrapWord(st, word, text_width) ==
    LET test_line == join(Append(st.current_line, word)) IN
    IF Fits(test_line, text_width)
    THEN [lines |-> st.lines, current_line |-> Append(st.current_line, word)]
    ELSE [lines |-> Flush(st.lines, st.current_line), current_line |-> StartLine(word)]

RECURSIVE WrapLoop(_, _, _)
WrapLoop(st, words, text_width) ==
    IF words = <<>> THEN st
    ELSE WrapLoop(WrapWord(st, Head(words), text_width), Tail(words), text_width)

\* lines 327-342
WrapLines(text, text_width) ==
    LET st == WrapLoop([lines |-> <<>>, current_line |-> <<>>], split(text), text_width)
    IN Flush(st.lines, st.current_line)

Ellipsis == <<".", ".", ".">>

\* lines 346-349: what draw.text is called with
DrawnLines(lines) ==
    [i \in 1..(IF Len(lines) < 2 THEN Len(lines) ELSE 2) |->
        IF i = 2 /\ Len(lines) > 2 THEN lines[i] \o Ellipsis ELSE lines[i]]

\* the task texts parse_todo_file can produce, up to n characters
TaskTexts(n) ==
    {t \in UNION {[1..k -> TextChars] : k \in 0..n} : strip(t) = t}

WrapInit ==
    /\ ParserIdle
    /\ PipelineIdle
    /\ EditorIdle
    /\ AuxIdle
    /\ BarIdle
    /\ LayoutIdle
    /\ w_text \in TaskTexts(MaxTextLen)
    /\ w_text_width \in 0..MaxTextWidth
    /\ w_lines = <<>>
    /\ w_drawn = <<>>
    /\ w_pc = "ready"

WrapCall ==
    /\ w_pc = "ready"
    /\ w_lines' = WrapLines(w_text, w_text_width)
    /\ w_drawn' = DrawnLines(WrapLines(w_text, w_text_width))
    /\ w_pc' = "done"
    /\ UNCHANGED <<w_text, w_text_width>>
    /\ UNCHANGED <<pvars, fvars, gvars, tvars, hvars, evars, bvars, lvars, xvars>>

WrapNext == WrapCall

SpecWrap == WrapInit /\ [][WrapNext]_vars

----------------------------------------------------------------------------
(* create_task_module, lines 353-371: the progress bar *)

\* Progress with the tasks still open for the completed ones
Progress_remaining(completed_count, total_count) ==
    [num |-> total_count - completed_count, den |-> total_count]

\* line 366: completed_count / total_count, as a fraction
Progress(completed_count, total_count) ==
    [num |-> completed_count, den |-> total_count]

\* line 369: int(progress_width * progress). The product is a float: where
\* it is a whole number k in exact arithmetic and progress is not 0 or 1,
\* its rounding gives k or just under k, and int() then k or k - 1.
FillWidths(progress_width, progress) ==
    LET exact == (progress_width * progress.num) \div progress.den IN
    IF /\ (progress_width * progress.num) % progress.den = 0
       /\ exact > 0
       /\ progress.num < progress.den
    THEN {exact - 1, exact}
    ELSE {exact}

BarInit ==
    /\ ParserIdle
    /\ PipelineIdle
    /\ EditorIdle
    /\ AuxIdle
    /\ WrapIdle
    /\ LayoutIdle
    /\ b_total_count \in 0..MaxCount
    /\ b_completed_count \in 0..b_total_count
    /\ b_progress_width \in 0..MaxBarWidth
    /\ b_fill = None
    /\ b_pc = "ready"

\* lines 365-371
BarCall ==
    /\ b_pc = "ready"
    /\ IF b_total_count > 0
       THEN \E w \in FillWidths(b_progress_width,
                                Progress(b_completed_count, b_total_count)) :
                b_fill' = Some(w)
       ELSE b_fill' = None
    /\ b_pc' = "done"
    /\ UNCHANGED <<b_completed_count, b_total_count, b_progress_width>>
    /\ UNCHANGED <<pvars, fvars, gvars, tvars, hvars, evars, wvars, lvars, xvars>>

BarNext == BarCall

SpecBar == BarInit /\ [][BarNext]_vars

----------------------------------------------------------------------------
(* create_wallpaper, lines 455-547: the panel and the task-module loop,    *)
(* with the metrics of setup_design_system (lines 76-147). A design is     *)
(* the resolution's height, card_min_height and max_visible_tasks; the     *)
(* other metrics have their default values.                                *)

grid_unit == 8
base_size == 16

\* lines 89, 94, 99: int(base_size * 2.5), int(base_size * 1.25), base_size
title_size == (base_size * 5) \div 2
headline_size == (base_size * 5) \div 4
body_size == base_size

\* lines 132 and 475, 144
title_padding == grid_unit * 3
section_spacing == grid_unit * 6

\* line 461: int(height * 0.1)
vertical_padding(d) == d.height \div 10

\* lines 462-463
todo_y(d) == vertical_padding(d)
container_height(d) == d.height - vertical_padding(d) * 2

\* lines 486, 499, 511: int(size * line_height) with line heights 1.2, 1.6
\* and 1.4
date_y(d) == todo_y(d) + title_padding + (title_size * 6) \div 5
stats_y(d) == date_y(d) + (body_size * 8) \div 5 + grid_unit * 2
first_module_y(d) == stats_y(d) + (headline_size * 7) \div 5 + section_spacing

\* lines 519-521
available_height(d) ==
    todo_y(d) + container_height(d) - first_module_y(d) - title_padding - body_size * 3

max_possible_modules(d) ==
    available_height(d) \div (d.card_min_height + grid_unit * 2)

actual_max_modules(d) ==
    IF d.max_visible_tasks < max_possible_modules(d)
    THEN d.max_visible_tasks ELSE max_possible_modules(d)

\* tasks[:k]: a negative k counts from the end of the list
SliceTo(tasks, k) ==
    IF k >= 0 THEN SubSeq(tasks, 1, IF k < Len(tasks) THEN k ELSE Len(tasks))
    ELSE SubSeq(tasks, 1, IF Len(tasks) + k > 0 THEN Len(tasks) + k ELSE 0)

\* lines 523-537: the loop from module_y on; the modules drawn so far are
\* drawn. create_task_module returns module_height + grid_unit * 2 (373).
RECURSIVE ModuleLoop(_, _, _, _)
ModuleLoop(d, rest, module_y, drawn) ==
    IF rest = <<>> THEN drawn
    ELSE IF module_y + d.card_min_height
              > todo_y(d) + container_height(d) - title_padding
         THEN drawn
         ELSE ModuleLoop(d, Tail(rest),
                         module_y + d.card_min_height + grid_unit * 2,
                         Append(drawn, Head(rest)))

DrawnModules(d, tasks) ==
    ModuleLoop(d, SliceTo(tasks, actual_max_modules(d)), first_module_y(d), <<>>)

\* lines 539-547
MoreLine(tasks, visible_tasks) ==
    IF Len(tasks) > visible_tasks THEN Some(Len(tasks) - visible_tasks) ELSE None

Heights == {1440, 1080, 600, 300}
CardHeights == {160, 40}

Designs ==
    [height : Heights, card_min_height : CardHeights,
     max_visible_tasks : (-1)..MaxVisibleTasks]

\* the default design at 2560x1440
DefaultDesign ==
    [height |-> 1440, card_min_height |-> grid_unit * 20, max_visible_tasks |-> 5]

LayoutInit ==
    /\ ParserIdle
    /\ PipelineIdle
    /\ EditorIdle
    /\ AuxIdle
    /\ WrapIdle
    /\ BarIdle
    /\ l_design \in Designs
    /\ l_tasks \in {[i \in 1..n |-> i] : n \in 0..MaxTasks}
    /\ l_drawn = <<>>
    /\ l_more = None
    /\ l_pc = "ready"

LayoutCall ==
    /\ l_pc = "ready"
    /\ l_drawn' = DrawnModules(l_design, l_tasks)
    /\ l_more' = MoreLine(l_tasks, Len(DrawnModules(l_design, l_tasks)))
    /\ l_pc' = "done"
    /\ UNCHANGED <<l_design, l_tasks>>
    /\ UNCHANGED <<pvars, fvars, gvars, tvars, hvars, evars, wvars, bvars, xvars>>

LayoutNext == LayoutCall

SpecLayout == LayoutInit /\ [][LayoutNext]_vars

----------------------------------------------------------------------------
(* C1 *)

\* the lines that are non-empty after trimming, trimmed, in file order
TrimmedNonBlank(lines) ==
    SelectSeq([i \in 1..Len(lines) |-> strip(lines[i])], LAMBDA l : l # <<>>)

\* the task the classification rules give for one trimmed, non-empty line
ClassifiedTask(l) ==
    CASE Len(l) >= 3 /\ l[1] = "[" /\ l[2] = "x" /\ l[3] = "]" ->
            [text |-> strip(SubSeq(l, 4, Len(l))), completed |-> TRUE]
      [] Len(l) >= 3 /\ l[1] = "[" /\ l[2] = " " /\ l[3] = "]" ->
            [text |-> strip(SubSeq(l, 4, Len(l))), completed |-> FALSE]
      [] Len(l) >= 2 /\ l[1] = "x" /\ l[2] = " " ->
            [text |-> strip(SubSeq(l, 3, Len(l))), completed |-> TRUE]
      [] OTHER -> [text |-> l, completed |-> FALSE]

\* C1: parse_todo_file is a map over the non-blank lines in file order: the
\* result has exactly one task per line that is non-empty after trimming, in
\* the same order, each classified by the first matching rule ('[x]', '[ ]',
\* 'x ', otherwise plain text); blank lines produce no task.
C1_ParseIsMapOverNonBlankLines ==
    p_pc = "done" =>
        LET nb == TrimmedNonBlank(FileLines(p_file)) IN
        /\ Len(p_tasks) = Len(nb)
        /\ \A i \in 1..Len(nb) : p_tasks[i] = ClassifiedTask(nb[i])

\* a parsed file with a completed task, a skipped blank line and a plain task
C1_Witness ==
    /\ p_pc = "done"
    /\ p_file = <<"x", " ", "a", "\n", "\n", "]">>
    /\ p_tasks = <<[text |-> <<"a">>, completed |-> TRUE],
                   [text |-> <<"]">>, completed |-> FALSE]>>

----------------------------------------------------------------------------
(* Steps and states the statements below speak of *)

\* thread th takes the AI step of create_wallpaper
AiStepBy(th) == cyc[th].pc = "ai" /\ cyc'[th].pc = "composite"

\* the step calls openai_client.images.generate
ApiCalled == api_calls' = api_calls + 1

\* an exception ends the cycle of thread th and leaves update_wallpaper
CycleFails(th) ==
    /\ InFlight(th)
    /\ cyc'[th].pc = "failed"
    /\ IF th = "main" THEN main_pc' = "crashed" ELSE obs_pc' = "dead"

\* the loop is running and has nothing left to do: no handler in progress,
\* no event queued
Quiet == main_pc = "sleeping" /\ obs_pc = "idle" /\ event_queue = <<>>

----------------------------------------------------------------------------
(* C2 *)

\* C2 as stated: of two AI steps in a row with an unchanged task list (the
\* first being the first for that list) exactly one calls the image API, and
\* after any change of the list the second step calls it.
C2_OneCallPerList ==
    [][\A th \in Threads : (AiStepBy(th) /\ prev_ai # None) =>
         LET t == cyc[th].tasks
             prev == prev_ai[1]
             calls == (IF prev.called THEN 1 ELSE 0) + (api_calls' - api_calls)
         IN /\ (t = prev.tasks /\ prev.fresh) => calls = 1
            /\ t # prev.tasks => ApiCalled]_vars

\* C2 amended: with a client configured and a non-empty task list, two AI
\* steps in a row with an unchanged list (the first being the first for that
\* list) make exactly one call when ai_todo_image.png exists at the second
\* step, and the second step makes no call whenever the list is unchanged and
\* the file exists; a second step with a changed, non-empty list calls the
\* API again.
C2_OneCallPerNonEmptyList ==
    [][\A th \in Threads : (AiStepBy(th) /\ prev_ai # None) =>
         LET t == cyc[th].tasks
             prev == prev_ai[1]
             calls == (IF prev.called THEN 1 ELSE 0) + (api_calls' - api_calls)
         IN /\ (t = prev.tasks /\ prev.fresh /\ t # <<>> /\ openai_client
                   /\ ai_image_file # None) => calls = 1
            /\ (t = prev.tasks /\ ai_image_file # None) => api_calls' = api_calls
            /\ (t # prev.tasks /\ t # <<>> /\ openai_client) => ApiCalled]_vars

\* the second of two render cycles with the same non-empty list has taken its
\* AI step from the cache, one call having been made in all
C2_Witness ==
    \E th \in Threads :
        /\ cyc[th].pc = "composite"
        /\ cyc[th].gen = "cached"
        /\ cyc[th].tasks # <<>>
        /\ renders = 2
        /\ api_calls = 1

----------------------------------------------------------------------------
(* C3 *)

\* C3 as stated: the AI step calls the image API if and only if the
\* fingerprint differs from last_content or ai_todo_image.png does not
\* exist; otherwise it makes no call and leaves last_ai_image as it is.
C3_RegenerateIffChanged ==
    [][\A th \in Threads : AiStepBy(th) =>
         LET stale == Some(str_tasks(cyc[th].tasks)) # last_content
                        \/ ai_image_file = None
         IN /\ ApiCalled <=> stale
            /\ ~stale => (api_calls' = api_calls /\ last_ai_image' = last_ai_image)]_vars

\* C3 amended: the AI step calls the image API if and only if (the
\* fingerprint differs from last_content or ai_todo_image.png does not
\* exist) and the task list is non-empty and a client is configured; when
\* neither condition of the first part holds it makes no call and leaves
\* last_ai_image as it is.
C3_RegenerateIffChangedAndCallable ==
    [][\A th \in Threads : AiStepBy(th) =>
         LET stale == Some(str_tasks(cyc[th].tasks)) # last_content
                        \/ ai_image_file = None
         IN /\ ApiCalled <=> (stale /\ cyc[th].tasks # <<>> /\ openai_client)
            /\ ~stale => (api_calls' = api_calls /\ last_ai_image' = last_ai_image)]_vars

\* an AI step that regenerated after the cache file had gone although the
\* fingerprint was that of last_content
C3_Witness ==
    \E th \in Threads :
        /\ cyc[th].pc = "composite"
        /\ cyc[th].gen = "ok"
        /\ prev_ai # None
        /\ ~prev_ai[1].fresh
        /\ prev_ai[1].called

----------------------------------------------------------------------------
(* C4 *)

\* C4: when the call of the image API fails in a cycle, that step leaves
\* last_ai_image unchanged and the cycle goes on to compositing on a thread
\* that keeps running; such a cycle, arrived at set_wallpaper, has written
\* its complete wallpaper to todo_wallpaper.png.
C4_GenerationFailureKeepsCacheAndCycle ==
    /\ [][\A th \in Threads :
            (cyc[th].pc = "ai" /\ cyc'[th].gen = "failed") =>
                /\ last_ai_image' = last_ai_image
                /\ cyc'[th].pc = "composite"
                /\ main_pc' = main_pc
                /\ obs_pc' = obs_pc]_vars
    /\ [](\A th \in Threads :
            (cyc[th].gen = "failed" /\ cyc[th].pc = "apply") =>
                /\ last_ai_image = cyc[th].img_before
                /\ wallpaper_file =
                     Some(Raster(cyc[th].tasks, cyc[th].img, "complete", "this")))

\* a cycle whose generation failed while an earlier image was cached has
\* written the wallpaper, with that image, and stands at set_wallpaper
C4_Witness ==
    \E th \in Threads :
        /\ cyc[th].gen = "failed"
        /\ cyc[th].pc = "apply"
        /\ cyc[th].img_before = Some(AiImagePath)
        /\ last_ai_image = Some(AiImagePath)
        /\ wallpaper_file # None
        /\ wallpaper_file[1].img # None

----------------------------------------------------------------------------
(* C5 *)

\* C5: two notifications that start a render cycle never arrived within
\* the debounce window of each other.
C5_OneRenderPerWindow ==
    Len(honored) = 2 => honored[2] - honored[1] > DebounceWindow

----------------------------------------------------------------------------
(* C6 *)

\* C6: the triggers that arrive during a render cycle cause exactly one
\* follow-up cycle: never more than one, and one once the loop has come to
\* rest.
C6_ExactlyOneFollowUp ==
    \A r \in mid_renders :
        /\ follow[r] <= 1
        /\ Quiet => follow[r] = 1

----------------------------------------------------------------------------
(* C7 *)

\* C7: at most one update_wallpaper / create_wallpaper execution of the
\* generator is in flight.
C7_RendersMutuallyExclusive ==
    Cardinality({th \in Threads : InFlight(th)}) <= 1

\* a cycle started from the file-watch callback is in flight while another
\* notification waits in the queue
C7_Witness ==
    /\ InFlight("obs")
    /\ event_queue # <<>>
    /\ main_pc = "sleeping"

----------------------------------------------------------------------------
(* C8 *)

\* C8: when the loop has come to rest, todo_wallpaper.png is the complete
\* rendering of the task list now in todo.txt.
C8_WallpaperCurrentAtRest ==
    Quiet =>
        /\ wallpaper_file # None
        /\ wallpaper_file[1].run = "this"
        /\ wallpaper_file[1].state = "complete"
        /\ wallpaper_file[1].tasks = parse_todo_file(todo_file)

----------------------------------------------------------------------------
(* C9 *)

\* C9: no error raised inside a render cycle ends run() or the thread that
\* handles the file-change notifications.
C9_ErrorsNeverStopTheLoop ==
    main_pc # "crashed" /\ obs_pc # "dead"

----------------------------------------------------------------------------
(* C10 *)

\* C10: todo_wallpaper.png changes only in the final save of
\* create_wallpaper, and a cycle that fails leaves an existing file as it
\* was.
C10_OutputFileIntegrity ==
    [][/\ wallpaper_file' # wallpaper_file =>
             \E th \in Threads : cyc[th].pc = "save"
       /\ \A th \in Threads :
             (CycleFails(th) /\ wallpaper_file # None) =>
                 wallpaper_file' = wallpaper_file]_vars

----------------------------------------------------------------------------
(* C11 *)

\* C11: the AI step of a cycle whose image generation fails leaves
\* last_content and last_ai_image at the values they had before the cycle
\* (the render state changes only at the end of a successful cycle).
C11_FailedGenerationKeepsRenderState ==
    [][\A th \in Threads :
          (cyc[th].pc = "ai" /\ cyc'[th].gen = "failed") =>
              /\ last_content' = last_content
              /\ last_ai_image' = last_ai_image]_vars

----------------------------------------------------------------------------
(* C12 *)

\* C12: whenever last_content is the fingerprint of the task list in
\* todo.txt and ai_todo_image.png exists, the image in that file was
\* generated from that task list. Stated for a configured client, a
\* non-empty list and an image this run of the program has written.
C12_CacheValidity ==
    LET tasks == parse_todo_file(todo_file) IN
    (/\ last_content = Some(str_tasks(tasks))
     /\ ai_image_file # None
     /\ ai_image_file[1].run = "this"
     /\ openai_client
     /\ tasks # <<>>) =>
        ai_image_file[1].from = tasks

----------------------------------------------------------------------------
(* C13 *)

\* C13: a cycle whose image generation failed composites the image in
\* ai_todo_image.png whenever that file exists, also when an earlier run
\* of the program left it there, and a plain background only when it does
\* not exist.
C13_FallbackToCachedImage ==
    [][\A th \in Threads :
          (cyc[th].pc = "composite" /\ cyc[th].gen = "failed"
              /\ cyc'[th].pc = "save") =>
              cyc'[th].img = ai_image_file]_vars

----------------------------------------------------------------------------
(* C14 *)

\* update_wallpaper is called: by run() at line 612, or by on_modified for
\* an event that passes the test of line 638
UpdateCalledByRun ==
    /\ main_pc = "update" /\ cyc["main"].pc = "none"
    /\ main_pc' \in {"update", "start_observer"}
    /\ cyc' # cyc \/ main_pc' # main_pc

UpdateCalledByHandler ==
    /\ obs_pc = "idle"
    /\ main_pc = "sleeping" /\ main_pc' = "sleeping"
    /\ event_queue # <<>> /\ event_queue' = Tail(event_queue)
    /\ clock - last_modified > DebounceWindow

\* C14 as stated: with AI images enabled, the AI step of every cycle that
\* could call the image API (client configured, task list non-empty) calls
\* it, whether or not the list is unchanged and the cache file exists.
C14_AlwaysRegenerates ==
    [][\A th \in Threads :
          (AiStepBy(th) /\ openai_client /\ cyc[th].tasks # <<>>) =>
              ApiCalled]_vars

\* C14 amended: with AI images enabled, every call of update_wallpaper
\* renders (runs create_wallpaper), also for an unchanged task list, but the
\* AI step of that cycle calls the image API only when the fingerprint
\* differs from last_content or ai_todo_image.png is missing.
C14_AlwaysRendersCallsWhenStale ==
    [][/\ (use_ai_images /\ (UpdateCalledByRun \/ UpdateCalledByHandler)) =>
              renders' = renders + 1
       /\ \A th \in Threads :
              (AiStepBy(th) /\ last_content = Some(str_tasks(cyc[th].tasks))
                  /\ ai_image_file # None) => api_calls' = api_calls]_vars

\* a cycle started by a file event for an unchanged, non-empty task list
\* with a client configured has written the wallpaper without calling the
\* image API
C14_Witness ==
    /\ cyc["obs"].pc = "apply"
    /\ cyc["obs"].gen = "cached"
    /\ cyc["obs"].tasks # <<>>
    /\ openai_client
    /\ wallpaper_file = Some(Raster(cyc["obs"].tasks, cyc["obs"].img, "complete", "this"))

----------------------------------------------------------------------------
(* C15 *)

\* C15: the cache file is not overwritten by the regeneration loop between
\* the editor's generation and the editor's use of it: the image the
\* editor's create_wallpaper pastes is the one the editor's thread generated
\* from its own task list.
C15_EditorPastesItsOwnImage ==
    e_pc \in {"save", "apply"} => e_img = Some(Image(e_tasks, "editor"))

----------------------------------------------------------------------------
(* C16 *)

\* a text with every run of whitespace made one blank and none at the ends
RECURSIVE Collapse(_)
Collapse(s) ==
    IF s = <<>> THEN <<>>
    ELSE IF Head(s) \in Whitespace
         THEN (IF Tail(s) # <<>> /\ Head(Tail(s)) \in Whitespace
               THEN Collapse(Tail(s))
               ELSE <<" ">> \o Collapse(Tail(s)))
         ELSE <<Head(s)>> \o Collapse(Tail(s))

Normalized(text) == Collapse(strip(text))

\* the words of all lines, in order
RECURSIVE WordsOf(_)
WordsOf(lines) ==
    IF lines = <<>> THEN <<>> ELSE split(Head(lines)) \o WordsOf(Tail(lines))

\* C16: the lines of the wrap loop joined with single blanks are the
\* whitespace-normalized text, and their words are the words of the text in
\* order, none dropped, repeated or split.
C16_WrapIsLossless ==
    w_pc = "done" =>
        /\ join(w_lines) = Normalized(w_text)
        /\ WordsOf(w_lines) = split(w_text)

\* a text with a double blank wrapped into two lines
C16_Witness ==
    /\ w_pc = "done"
    /\ w_text = <<"a", " ", " ", "W">>
    /\ w_text_width = 2
    /\ w_lines = << <<"a">>, <<"W">> >>

----------------------------------------------------------------------------
(* C17 *)

\* C17: every line of the wrap loop is at most text_width wide unless it
\* is one word that alone is wider, and a line is followed by another only
\* if it would have been wider than text_width with the first word of the
\* next line.
C17_WrapWidthBoundGreedy ==
    w_pc = "done" =>
        /\ \A i \in 1..Len(w_lines) :
              \/ TextWidth(w_lines[i]) <= w_text_width
              \/ Len(split(w_lines[i])) = 1
        /\ \A i \in 1..(Len(w_lines) - 1) :
              TextWidth(w_lines[i] \o <<" ">> \o split(w_lines[i + 1])[1])
                  > w_text_width

\* a word wider than text_width alone on its line, followed by a line of
\* two words that fills text_width exactly
C17_Witness ==
    /\ w_pc = "done"
    /\ w_text_width = 3
    /\ w_lines = << <<"W", "W">>, <<"a", " ", "a">> >>

----------------------------------------------------------------------------
(* C18 *)

\* C18: at most 2 lines are drawn; when the wrap loop left more than 2
\* lines the second line is drawn with its tail replaced by the ellipsis
\* (a proper prefix of the line, then "..."), and when it left 2 or fewer
\* the lines are drawn as they are.
C18_TruncationReplacesTail ==
    w_pc = "done" =>
        /\ Len(w_drawn) <= 2
        /\ Len(w_lines) > 2 =>
              /\ Len(w_drawn) = 2
              /\ w_drawn[1] = w_lines[1]
              /\ \E k \in 0..(Len(w_lines[2]) - 1) :
                    w_drawn[2] = SubSeq(w_lines[2], 1, k) \o Ellipsis
        /\ Len(w_lines) <= 2 => w_drawn = w_lines

----------------------------------------------------------------------------
(* C19 *)

\* the number of modules that fit in the panel below the header: the
\* largest k >= 0 with k modules, each with its spacing, in available_height
FitCount(d) ==
    IF available_height(d) < 0 THEN 0
    ELSE available_height(d) \div (d.card_min_height + grid_unit * 2)

Min3(a, b, c) ==
    LET ab == IF a < b THEN a ELSE b IN IF ab < c THEN ab ELSE c

\* C19: the number of task modules drawn is min(len(tasks),
\* max_visible_tasks, modules that fit), and none for a limit below 0; the
\* modules are those of the first tasks in order; "+k more tasks" with
\* k = len(tasks) - drawn is drawn exactly when k > 0; the default design at
\* 2560x1440 with 7 tasks gives 5 modules and "+2 more tasks".
C19_VisibleModuleCount ==
    l_pc = "done" =>
        LET n == Len(l_tasks)
            limit == Min3(n, l_design.max_visible_tasks, FitCount(l_design))
            drawn == IF limit < 0 THEN 0 ELSE limit
        IN /\ Len(l_drawn) = drawn
           /\ l_drawn = SubSeq(l_tasks, 1, drawn)
           /\ l_more = (IF n - drawn > 0 THEN Some(n - drawn) ELSE None)
           /\ (l_design = DefaultDesign /\ n = 7) =>
                  (Len(l_drawn) = 5 /\ l_more = Some(2))

----------------------------------------------------------------------------
(* C20 *)

\* C20: for 0 <= completed_count <= total_count, no fill is drawn when
\* total_count = 0, and otherwise the filled width is progress_width times
\* completed_count / total_count cut to a whole number (at most one less
\* than the exact quotient's whole part), which lies between 0 and
\* progress_width.
C20_ProgressFraction ==
    b_pc = "done" =>
        /\ b_total_count = 0 => b_fill = None
        /\ b_total_count > 0 =>
              /\ b_fill # None
              /\ 0 <= b_fill[1] /\ b_fill[1] <= b_progress_width
              /\ b_fill[1] * b_total_count <= b_progress_width * b_completed_count
              /\ b_progress_width * b_completed_count < (b_fill[1] + 2) * b_total_count

\* 3 of 4 tasks completed: three quarters of a bar 4 wide are filled
C20_Witness ==
    /\ b_pc = "done"
    /\ b_completed_count = 3
    /\ b_total_count = 4
    /\ b_progress_width = 4
    /\ b_fill = Some(3)

----------------------------------------------------------------------------
(* C21 *)

\* C21: run() goes on from its first update_wallpaper call to starting the
\* observer only at the end of a full render cycle, the first of the run,
\* which has written todo_wallpaper.png; the main thread runs no other
\* cycle, and while the observer exists (so before any event is handled)
\* the main thread is past that call.
C21_InitialCycleBeforeEvents ==
    /\ [][(main_pc = "update" /\ main_pc' = "start_observer") =>
             /\ cyc["main"].pc = "apply"
             /\ cyc["main"].id = 1
             /\ wallpaper_file = Some(Raster(cyc["main"].tasks, cyc["main"].img,
                                             "complete", "this"))]_vars
    /\ [](/\ cyc["main"].id <= 1
          /\ (obs_pc # "off" \/ InFlight("obs") \/ honored # <<>>) =>
                (main_pc \in {"sleeping", "joining", "returned"} /\ renders >= 1))

\* the initial cycle has replaced an output file that existed with an
\* unchanged empty task list and AI images off, and the observer is not
\* started yet
C21_Witness ==
    /\ main_pc = "start_observer"
    /\ obs_pc = "off"
    /\ renders = 1
    /\ ~use_ai_images
    /\ todo_file = <<>>
    /\ wallpaper_file = Some(Raster(<<>>, None, "complete", "this"))

----------------------------------------------------------------------------
(* C22 *)

\* C22: the step in which run() takes the shutdown signal leaves every
\* render cycle in progress as it is, to run to its end, and does not touch
\* todo_wallpaper.png.
C22_ShutdownLetsRenderFinish ==
    [][(Running /\ main_pc' \in {"interrupted", "joining", "returned"}) =>
          /\ \A th \in Threads : InFlight(th) => cyc'[th] = cyc[th]
          /\ wallpaper_file' = wallpaper_file]_vars

----------------------------------------------------------------------------
(* parse_todo_file on a file that is missing or fails to be read *)

MaxLines == 3

\* the lines todo.txt is made of in this run
ReadableLines == {<<"a", "\n">>, <<"[", "x", "]", "a", "\n">>, <<"\n">>}

\* lines 213-232. A missing file skips the whole block (line 214). The try
\* block covers open() and the loop: an exception ends the loop where it
\* stands, the except clause prints it, and line 232 returns tasks as the
\* loop left it. error = Some(k): the exception comes after the loop body
\* ran for k lines (k = 0: open() raised, or the first read did).
\* self.todo_file.exists() itself is taken to return.
parse_todo_file_io(exists, lines, error) ==
    IF ~exists THEN <<>>
    ELSE IF error = None THEN ParseLines(<<>>, lines)
    ELSE ParseLines(<<>>, SubSeq(lines, 1, error[1]))

\* line 231
ReadErrorPrinted(exists, error) == exists /\ error # None

ReadInit ==
    /\ ParserIdle
    /\ PipelineIdle
    /\ EditorIdle
    /\ DrawIdle
    /\ MergeIdle
    /\ DesignIdle
    /\ FormatIdle
    /\ UpdaterIdle
    /\ r_exists \in BOOLEAN
    /\ r_lines \in UNION {[1..n -> ReadableLines] : n \in 0..MaxLines}
    /\ r_error \in {None} \cup {Some(k) : k \in 0..Len(r_lines)}
    /\ ~r_exists => (r_lines = <<>> /\ r_error = None)
    /\ r_tasks = <<>>
    /\ r_reported = FALSE
    /\ r_pc = "ready"

ReadCall ==
    /\ r_pc = "ready"
    /\ r_tasks' = parse_todo_file_io(r_exists, r_lines, r_error)
    /\ r_reported' = ReadErrorPrinted(r_exists, r_error)
    /\ r_pc' = "done"
    /\ UNCHANGED <<r_exists, r_lines, r_error>>
    /\ UNCHANGED <<pvars, fvars, gvars, tvars, hvars, evars, dvars, svars>>
    /\ UNCHANGED <<mvars, dsvars, rtvars, uvars>>

ReadNext == ReadCall

SpecRead == ReadInit /\ [][ReadNext]_vars

----------------------------------------------------------------------------
(* C23 *)

\* C23 as stated: when todo.txt is missing, or reading it raises at any
\* point (at open() or after some lines were read), parse_todo_file returns
\* the empty list, and a raised error is reported.
C23_FailedReadYieldsEmptyList ==
    (r_pc = "done" /\ (~r_exists \/ r_error # None)) =>
        /\ r_tasks = <<>>
        /\ r_error # None => r_reported

----------------------------------------------------------------------------
(* run() on a desktop whose wallpaper mechanism may fail *)

SinkInit == LoopInit /\ sink \in Sinks /\ sink_log = "not_called"

SpecSink == SinkInit /\ [][Next]_vars

----------------------------------------------------------------------------
(* C24 *)

\* thread th's set_wallpaper call returns and update_wallpaper with it
SetWallpaperBy(th) == cyc[th].pc = "apply" /\ cyc'[th].pc = "none"

\* the thread goes on as after any completed update_wallpaper call
GoesOn(th) ==
    IF th = "main" THEN main_pc' = "start_observer"
    ELSE obs_pc' \in {"idle", "stopped"}

\* C24 as stated: when the wallpaper mechanism fails to apply the file,
\* set_wallpaper prints the failure with the path to set by hand, raises
\* nothing, update_wallpaper completes and the thread that called it goes on.
C24_SinkFailureLoggedNotFatal ==
    [][\A th \in Threads :
          (SetWallpaperBy(th) /\ sink # "applied") =>
              /\ sink_log' = "error_and_path"
              /\ GoesOn(th)]_vars

----------------------------------------------------------------------------
(* TodoApp._deep_merge (src/todo_app.py). A dict is a function from its    *)
(* keys to values; a value is a leaf or a dict.                            *)

Leaf(x) == [leaf |-> x]
Mapping(d) == [items |-> d]

\* isinstance(value, dict)
IsDict(value) == DOMAIN value = {"items"}

ConfigKeys == {"wallpaper", "font_size"}
Leaves == {Leaf(11), Leaf(16)}

\* dicts over the given values
DictsOf(values) == UNION {[keys -> values] : keys \in SUBSET ConfigKeys}

FlatDicts == DictsOf(Leaves)

\* dicts nested up to two levels
Dicts == DictsOf(Leaves \cup {Mapping(d) : d \in FlatDicts})

\* base[key] = value
SetItem(base, key, value) ==
    [k \in DOMAIN base \cup {key} |-> IF k = key THEN value ELSE base[k]]

\* MergeValue with the else branch alone: update's value always replaces
MergeValue_overwrite(base, key, value) == value

RECURSIVE deep_merge(_, _)

\* lines 94-97: what one item of update stores under its key
MergeValue(base, key, value) ==
    IF key \in DOMAIN base /\ IsDict(base[key]) /\ IsDict(value)
    THEN Mapping(deep_merge(base[key].items, value.items))
    ELSE value

\* line 93: the loop over update.items(), keys being those still to come.
\* Each pass touches one key of base, so the order does not matter.
RECURSIVE MergeItems(_, _, _)
MergeItems(base, update, keys) ==
    IF keys = {} THEN base
    ELSE LET key == CHOOSE k \in keys : TRUE IN
         MergeItems(SetItem(base, key, MergeValue(base, key, update[key])),
                    update, keys \ {key})

\* lines 91-98. base is changed in place and returned; a dict of update
\* stored by line 97 is shared with update, which a later merge of the
\* same update reads and rewrites with equal values.
deep_merge(base, update) == MergeItems(base, update, DOMAIN update)

MergeInit ==
    /\ ParserIdle
    /\ PipelineIdle
    /\ EditorIdle
    /\ DrawIdle
    /\ ReadIdle
    /\ DesignIdle
    /\ FormatIdle
    /\ UpdaterIdle
    /\ m_base \in Dicts
    /\ m_update \in Dicts
    /\ m_merged = <<>>
    /\ m_again = <<>>
    /\ m_pc = "ready"

\* line 86: self._deep_merge(default_config, user_config)
MergeCall ==
    /\ m_pc = "ready"
    /\ m_merged' = deep_merge(m_base, m_update)
    /\ m_pc' = "merged"
    /\ UNCHANGED <<m_base, m_update, m_again>>
    /\ UNCHANGED <<pvars, fvars, gvars, tvars, hvars, evars, dvars, svars>>
    /\ UNCHANGED <<rvars, dsvars, rtvars, uvars>>

\* the same update merged into the result once more
MergeAgain ==
    /\ m_pc = "merged"
    /\ m_again' = deep_merge(m_merged, m_update)
    /\ m_pc' = "again"
    /\ UNCHANGED <<m_base, m_update, m_merged>>
    /\ UNCHANGED <<pvars, fvars, gvars, tvars, hvars, evars, dvars, svars>>
    /\ UNCHANGED <<rvars, dsvars, rtvars, uvars>>

MergeNext == MergeCall \/ MergeAgain

SpecMerge == MergeInit /\ [][MergeNext]_vars

----------------------------------------------------------------------------
(* C25 *)

\* R is D with U merged in, as the claim describes it
RECURSIVE IsMergeOf(_, _, _)
IsMergeOf(R, D, U) ==
    /\ DOMAIN R = DOMAIN D \cup DOMAIN U
    /\ \A k \in DOMAIN R :
          IF k \notin DOMAIN U THEN R[k] = D[k]
          ELSE IF k \in DOMAIN D /\ IsDict(D[k]) /\ IsDict(U[k])
               THEN /\ IsDict(R[k])
                    /\ IsMergeOf(R[k].items, D[k].items, U[k].items)
               ELSE R[k] = U[k]

\* C25: _deep_merge(D, U) has the keys of D and of U; a key of D alone
\* keeps D's value; a key whose values in D and U are both dicts holds
\* their recursive merge; any other key of U holds U's value. Merging the
\* same U into the result again returns the result unchanged.
C25_DeepMerge ==
    /\ m_pc \in {"merged", "again"} => IsMergeOf(m_merged, m_base, m_update)
    /\ m_pc = "again" => m_again = m_merged

\* defaults {wallpaper: {font_size: 16}, font_size: 11} merged with
\* {wallpaper: {wallpaper: 11}, font_size: 16}, twice
C25_Witness ==
    /\ m_pc = "again"
    /\ m_base = [wallpaper |-> Mapping([font_size |-> Leaf(16)]),
                 font_size |-> Leaf(11)]
    /\ m_update = [wallpaper |-> Mapping([wallpaper |-> Leaf(11)]),
                   font_size |-> Leaf(16)]
    /\ m_merged = [wallpaper |-> Mapping([font_size |-> Leaf(16), wallpaper |-> Leaf(11)]),
                   font_size |-> Leaf(16)]

----------------------------------------------------------------------------
(* setup_design_system (lines 76-147): the metrics it computes from the    *)
(* resolution and the design_system section of the configuration           *)

\* a scale factor num/den; the factors used here are exact as floats
Ratio(num, den) == <<num, den>>

\* int(size * scale), for the positive sizes and factors of this run
IntTimes(size, scale) == (size * scale[1]) \div scale[2]

\* config['resolution'][0] and design_system: a key that is left out reads
\* as its default (lines 79, 80, 86, 90, 95), which each set below holds.
\* body_scale is the one key setup_design_system never reads: None stands
\* for a configuration without it.
DesignConfigs ==
    [width : {2560, 1920, 1000},
     column_count : {12, 7},
     grid_unit : {8, 4},
     base_size : {16, 15},
     title_scale : {Ratio(5, 2), Ratio(2, 1)},
     headline_scale : {Ratio(5, 4), Ratio(3, 2)},
     body_scale : {None, Some(Ratio(1, 1)), Some(Ratio(3, 2))}]

\* lines 79-82, 85-102, 128-130
setup_design_system(c) ==
    LET column_width == c.width \div c.column_count
        gutter == c.grid_unit * 3
    IN  [column_width |-> column_width,
         gutter |-> gutter,
         title |-> IntTimes(c.base_size, c.title_scale),
         headline |-> IntTimes(c.base_size, c.headline_scale),
         body |-> c.base_size,
         card_width |-> column_width * 4 - gutter]

DesignInit ==
    /\ ParserIdle
    /\ PipelineIdle
    /\ EditorIdle
    /\ DrawIdle
    /\ ReadIdle
    /\ MergeIdle
    /\ FormatIdle
    /\ UpdaterIdle
    /\ ds_config \in DesignConfigs
    /\ ds_resolved = None
    /\ ds_pc = "ready"

\* line 52
DesignCall ==
    /\ ds_pc = "ready"
    /\ ds_resolved' = Some(setup_design_system(ds_config))
    /\ ds_pc' = "done"
    /\ UNCHANGED ds_config
    /\ UNCHANGED <<pvars, fvars, gvars, tvars, hvars, evars, dvars, svars>>
    /\ UNCHANGED <<rvars, mvars, rtvars, uvars>>

DesignNext == DesignCall

SpecDesign == DesignInit /\ [][DesignNext]_vars

----------------------------------------------------------------------------
(* C26 *)

\* the body scale the configuration asks for, 1 when it names none
ConfiguredBodyScale(c) ==
    IF c.body_scale = None THEN Ratio(1, 1) ELSE c.body_scale[1]

\* C26 as stated, sizes in whole pixels: column width is the width divided
\* by column_count, the gutter three grid units, the card width four columns
\* less the gutter, and the title, headline and body sizes are base_size
\* times the configured title_scale, headline_scale and body_scale.
C26_ResolvedDesignMetrics ==
    ds_pc = "done" =>
        LET c == ds_config
            d == ds_resolved[1]
        IN  /\ d.column_width = c.width \div c.column_count
            /\ d.gutter = 3 * c.grid_unit
            /\ d.card_width = 4 * d.column_width - d.gutter
            /\ d.title = IntTimes(c.base_size, c.title_scale)
            /\ d.headline = IntTimes(c.base_size, c.headline_scale)
            /\ d.body = IntTimes(c.base_size, ConfiguredBodyScale(c))

----------------------------------------------------------------------------
(* C27 *)

\* the test update_wallpaper makes with AI images off, on the file as it
\* is when the call parses it
ListChangedOrOutputMissing ==
    \/ Some(str_tasks(parse_todo_file(todo_file))) # last_content
    \/ wallpaper_file = None

\* the call by thread th enters create_wallpaper when the test is true and
\* otherwise returns at once, leaving the output file, the sink and
\* last_content as they were
RendersIffStale(th) ==
    /\ cyc'[th].pc = "composite" <=> ListChangedOrOutputMissing
    /\ ~ListChangedOrOutputMissing =>
          /\ cyc'[th] = NoCycle
          /\ wallpaper_file' = wallpaper_file
          /\ sink_log' = sink_log
          /\ last_content' = last_content

\* C27: with AI images disabled, a call of update_wallpaper renders exactly
\* when the parsed list differs from last_content or todo_wallpaper.png is
\* missing, and otherwise returns leaving output file, sink and last_content
\* untouched; last_content is set only by the step in which set_wallpaper,
\* called after create_wallpaper returned, has run, to the fingerprint of
\* the list that cycle parsed.
C27_NonAiRenderDecision ==
    /\ [][(~use_ai_images /\ UpdateCalledByRun) => RendersIffStale("main")]_vars
    /\ [][(~use_ai_images /\ UpdateCalledByHandler) => RendersIffStale("obs")]_vars
    /\ [][(~use_ai_images /\ last_content' # last_content) =>
             \E th \in Threads :
                /\ SetWallpaperBy(th)
                /\ sink_log' # "not_called"
                /\ last_content' = Some(str_tasks(cyc[th].tasks))]_vars

\* the handler's call found the list unchanged and the output in place: it
\* returned without a render (one render so far, the initial one)
C27_Witness ==
    /\ ~use_ai_images
    /\ renders = 1
    /\ last_modified > 0
    /\ obs_pc = "idle"
    /\ wallpaper_file # None
    /\ last_content = Some(str_tasks(parse_todo_file(todo_file)))

----------------------------------------------------------------------------
(* C28 *)

\* the fingerprint of the list thread th's cycle parsed
FingerprintOf(th) == Some(str_tasks(cyc[th].tasks))

----------------------------------------------------------------------------
(* The editor's save_todos and line parser (src/todo_editor_module.py),    *)
(* and parse_todo_file reading what the editor wrote                       *)

MaxEntryLen == 3

\* what an entry can hold: save_todos writes entry.get() as it is, apart
\* from strip(), and a tk.Entry keeps a line break that was pasted into it
EntryChars == {"a", " ", "\n"}

EntryTexts == UNION {[1..k -> EntryChars] : k \in 0..MaxEntryLen}

\* one element of self.todo_widgets: entry.get() and var.get()
Items == [text : EntryTexts, completed : BOOLEAN]

\* self.todo_widgets with up to two widgets
ItemLists == {<<>>} \cup {<<i>> : i \in Items} \cup {<<i, j>> : i, j \in Items}

\* lines 655-659: what the loop of save_todos writes for one widget
SavedLine(item) ==
    LET text == strip(item.text) IN
    IF text = <<>> THEN <<>>
    ELSE (IF item.completed THEN <<"[", "x", "]">> ELSE <<"[", " ", "]">>)
             \o <<" ">> \o text \o <<"\n">>

\* lines 651-659: the content of todo.txt after save_todos
RECURSIVE save_todos(_)
save_todos(items) ==
    IF items = <<>> THEN <<>>
    ELSE SavedLine(Head(items)) \o save_todos(Tail(items))

\* lines 528-541: the flag and text create_todo_widget takes from a line
create_todo_widget(line) ==
    IF startswith(line, <<"[", "x", "]">>)
        THEN Task(strip(SliceFrom(line, 3)), TRUE)
    ELSE IF startswith(line, <<"[", " ", "]">>)
        THEN Task(strip(SliceFrom(line, 3)), FALSE)
    ELSE IF startswith(line, <<"x", " ">>)
        THEN Task(strip(SliceFrom(line, 2)), TRUE)
    ELSE Task(line, FALSE)

\* lines 510-515: the loop of load_todos over f.readlines()
RECURSIVE LoadLines(_, _)
LoadLines(widgets, lines) ==
    IF lines = <<>> THEN widgets
    ELSE LET line == strip(Head(lines)) IN
         LoadLines(IF line # <<>> THEN Append(widgets, create_todo_widget(line))
                   ELSE widgets,
                   Tail(lines))

\* lines 506-521 on an existing, readable file: an empty file gets the one
\* empty widget of add_task (create_todo_widget("[ ] "))
load_todos(content) ==
    IF FileLines(content) = <<>>
    THEN <<create_todo_widget(<<"[", " ", "]", " ">>)>>
    ELSE LoadLines(<<>>, FileLines(content))

FormatInit ==
    /\ ParserIdle
    /\ PipelineIdle
    /\ EditorIdle
    /\ DrawIdle
    /\ ReadIdle
    /\ MergeIdle
    /\ DesignIdle
    /\ UpdaterIdle
    /\ rt_items \in ItemLists
    /\ rt_file = <<>>
    /\ rt_tasks = <<>>
    /\ rt_widgets = <<>>
    /\ rt_pc = "ready"

\* the editor saves
FormatSave ==
    /\ rt_pc = "ready"
    /\ rt_file' = save_todos(rt_items)
    /\ rt_pc' = "saved"
    /\ UNCHANGED <<rt_items, rt_tasks, rt_widgets>>
    /\ UNCHANGED <<pvars, fvars, gvars, tvars, hvars, evars, dvars, svars>>
    /\ UNCHANGED <<rvars, mvars, dsvars, uvars>>

\* the wallpaper generator parses the file, and the editor loads it
FormatRead ==
    /\ rt_pc = "saved"
    /\ rt_tasks' = parse_todo_file(rt_file)
    /\ rt_widgets' = load_todos(rt_file)
    /\ rt_pc' = "read"
    /\ UNCHANGED <<rt_items, rt_file>>
    /\ UNCHANGED <<pvars, fvars, gvars, tvars, hvars, evars, dvars, svars>>
    /\ UNCHANGED <<rvars, mvars, dsvars, uvars>>

FormatNext == FormatSave \/ FormatRead

SpecFormat == FormatInit /\ [][FormatNext]_vars

----------------------------------------------------------------------------
(* C29 *)

\* the items whose trimmed text is non-empty, in order, with the trimmed
\* text and the flag
RECURSIVE NonEmptyItems(_)
NonEmptyItems(items) ==
    IF items = <<>> THEN <<>>
    ELSE LET text == strip(Head(items).text) IN
         (IF text = <<>> THEN <<>> ELSE <<Task(text, Head(items).completed)>>)
             \o NonEmptyItems(Tail(items))

\* C29 as stated: parse_todo_file reads the file save_todos wrote as exactly
\* the editor's items with non-empty trimmed text, in order, each with its
\* trimmed text and completion flag; and the editor's own loader gives every
\* non-blank line of that file the text and flag parse_todo_file gives it.
C29_EditorRoundTrip ==
    rt_pc = "read" =>
        /\ rt_tasks = NonEmptyItems(rt_items)
        /\ rt_file # <<>> => rt_widgets = rt_tasks

----------------------------------------------------------------------------
(* TodoEditor.manage_wallpaper and quit_app (src/todo_editor_module.py):   *)
(* the editor and the wallpaper updater subprocesses it starts. The calls  *)
(* are taken one at a time.                                                *)

MaxSpawns == 3

\* the fields manage_wallpaper works on
UpdaterState ==
    [wallpaper_process |-> wallpaper_process, alive |-> alive, spawned |-> spawned]

\* self.wallpaper_process and self.wallpaper_process.poll() is None
PollsAlive(s) ==
    s.wallpaper_process # None /\ s.wallpaper_process[1] \in s.alive

\* how terminate(), wait(timeout=2) and kill() of lines 105-109 can end:
\* the process exits on terminate(); it does not within 2 seconds and is
\* killed; or one of the calls raises and the process lives on (line 111)
StopOutcomes == {"terminated", "killed", "raises"}

\* lines 90-100: action == 'start'. popen_ok: subprocess.Popen returned a
\* process; otherwise it raised, which line 99 catches
start(s, popen_ok) ==
    IF ~PollsAlive(s) /\ popen_ok
    THEN [wallpaper_process |-> Some(s.spawned + 1),
          alive |-> s.alive \cup {s.spawned + 1},
          spawned |-> s.spawned + 1]
    ELSE s

\* lines 102-114: action == 'stop'; the finally clause clears the handle
stop(s, how) ==
    IF PollsAlive(s)
    THEN [s EXCEPT !.wallpaper_process = None,
                   !.alive = IF how = "raises" THEN @
                             ELSE @ \ {s.wallpaper_process[1]}]
    ELSE s

\* lines 116-122: action == 'toggle', its effect and its return value
toggle(s, popen_ok, how) ==
    IF PollsAlive(s) THEN stop(s, how) ELSE start(s, popen_ok)

toggle_returns(s) == IF PollsAlive(s) THEN "False" ELSE "True"

\* lines 124-125: action == 'check' returns the value of
\* `self.wallpaper_process and self.wallpaper_process.poll() is None`
check_returns(s) ==
    IF s.wallpaper_process = None THEN "None"
    ELSE IF PollsAlive(s) THEN "True" ELSE "False"

\* the record of a call: what was called, what it returned, whether it
\* started an updater, and the updaters alive when it was called
Call(action, ret, s, t) ==
    Some([action |-> action, ret |-> ret, started |-> t.spawned > s.spawned,
          before |-> s.alive])

\* the call leaves the editor with the fields t
Becomes(t) ==
    /\ wallpaper_process' = t.wallpaper_process
    /\ alive' = t.alive
    /\ spawned' = t.spawned

UpdaterFrame ==
    /\ UNCHANGED <<pvars, fvars, gvars, tvars, hvars, evars, dvars, svars>>
    /\ UNCHANGED <<rvars, mvars, dsvars, rtvars, enable_wallpaper>>

UpdaterInit ==
    /\ ParserIdle
    /\ PipelineIdle
    /\ EditorIdle
    /\ DrawIdle
    /\ ReadIdle
    /\ MergeIdle
    /\ DesignIdle
    /\ FormatIdle
    /\ enable_wallpaper \in BOOLEAN
    /\ wallpaper_process = None
    /\ alive = {}
    /\ spawned = 0
    /\ last_call = None
    /\ ed_running = TRUE

\* manage_wallpaper(action) with lines 87-88: nothing at all is done, and
\* None returned, when enable_wallpaper is off
ManageWallpaper(action, ret, t) ==
    LET s == UpdaterState IN
    IF enable_wallpaper
    THEN Becomes(t) /\ last_call' = Call(action, ret, s, t)
    ELSE Becomes(s) /\ last_call' = Call(action, "None", s, s)

ManageStart ==
    /\ ed_running
    /\ spawned < MaxSpawns
    /\ \E popen_ok \in BOOLEAN :
          ManageWallpaper("start", "None", start(UpdaterState, popen_ok))
    /\ UNCHANGED ed_running
    /\ UpdaterFrame

ManageStop ==
    /\ ed_running
    /\ \E how \in StopOutcomes :
          ManageWallpaper("stop", "None", stop(UpdaterState, how))
    /\ UNCHANGED ed_running
    /\ UpdaterFrame

\* toggle_wallpaper (lines 481-487) calls it and words the status by the
\* return value
ManageToggle ==
    /\ ed_running
    /\ spawned < MaxSpawns
    /\ \E popen_ok \in BOOLEAN, how \in StopOutcomes :
          ManageWallpaper("toggle", toggle_returns(UpdaterState),
                          toggle(UpdaterState, popen_ok, how))
    /\ UNCHANGED ed_running
    /\ UpdaterFrame

ManageCheck ==
    /\ ed_running
    /\ ManageWallpaper("check", check_returns(UpdaterState), UpdaterState)
    /\ UNCHANGED ed_running
    /\ UpdaterFrame

\* lines 229-232: quit_app
QuitApp ==
    /\ ed_running
    /\ ed_running' = FALSE
    /\ \E how \in StopOutcomes :
          ManageWallpaper("stop", "None", stop(UpdaterState, how))
    /\ UpdaterFrame

\* an updater ends by itself (run() returned or was left by an exception)
UpdaterExits ==
    /\ \E pid \in alive : alive' = alive \ {pid}
    /\ UNCHANGED <<wallpaper_process, spawned, last_call, ed_running>>
    /\ UpdaterFrame

UpdaterNext ==
    \/ ManageStart
    \/ ManageStop
    \/ ManageToggle
    \/ ManageCheck
    \/ QuitApp
    \/ UpdaterExits

SpecUpdater == UpdaterInit /\ [][UpdaterNext]_vars

----------------------------------------------------------------------------
(* C30 *)

\* C30 as stated: at most one updater started by this editor is alive; a
\* call starts one only when none was alive; after 'stop' none is alive and
\* wallpaper_process is cleared; 'toggle' returns True exactly when it
\* started one; after quit_app none is alive.
C30_UpdaterManagement ==
    /\ Cardinality(alive) <= 1
    /\ last_call # None =>
          LET c == last_call[1] IN
          /\ c.started => c.before = {}
          /\ c.action = "stop" => (alive = {} /\ wallpaper_process = None)
          /\ c.action = "toggle" => (c.ret = "True" <=> c.started)
    /\ ~ed_running => alive = {}

====
